---- MODULE Spec2Model ----
(***************************************************************************)
(* A model of automap/src/comm_layer/pcp_pmp_common.rs: the UDP socket     *)
(* seam (UdpSocketWrapper, UdpSocketFactory, FreePortFactory), its real    *)
(* implementations and the scripted mocks of the `mocks` module.           *)
(***************************************************************************)
EXTENDS Integers, Sequences, FiniteSets, TLC

\* ------------------------------------------------------------- bounds
\* The number of queue-a-result builder steps one test performs.
MaxResults == 3
\* The longest caller's buffer of the recv_from scenarios.
MaxBuf == 2
\* The number of calls one test makes on a UdpSocketReal.
MaxRealCalls == 2
\* The number of times the test thread reads a sink while doubles run.
MaxReads == 2
\* The number of make calls one test issues on the real socket factories.
MaxMakes == 3
\* The number of builder steps in the chain that two doubles are built from.
MaxSteps == 3

\* ------------------------------------------------------------- values
\* u8. No operation of the source looks at the value of a byte (bytes are
\* only copied), so two values stand for the 256.
Byte == {0, 1}

\* The unit value () that recv_from pushes on its sink and that
\* set_read_timeout returns on success.
Unit == "()"

SocketAddrs == {"127.0.0.1:9999", "192.168.0.1:5351"}

\* The destination the caller sends to.
Destinations == {"127.0.0.1:9999"}

\* io::Result<T>
Ok(v) == [ok |-> TRUE, val |-> v]
Err(e) == [ok |-> FALSE, err |-> e]

\* Option<Duration>
None == [some |-> FALSE]
Some(d) == [some |-> TRUE, val |-> d]
Durations == {None, Some(1)}

\* How a call ends: it returns a value, or it panics (unwinds).
Return(v) == [kind |-> "return", val |-> v]
Panic(msg) == [kind |-> "panic", msg |-> msg]

\* ------------------------------------------------------------- sinks
\* A parameter sink is an Arc<Mutex<Vec<_>>>: a shared object. The heap maps
\* the identity of each Arc to the Vec it guards. An identity is
\* <<who allocated it, the operation whose parameters it holds>>; the element
\* type of the Vec differs per operation, so a sink of one operation can
\* never be attached to another.
SocketOps == {"recv_from", "send_to", "set_read_timeout"}
SinkIds == ({"test", "sock", "m1", "m2"} \X SocketOps) \cup ({"test", "factory"} \X {"make"})

\* Faulty variant of Push: the Vec is replaced by one that holds v alone.
Push_Overwrite(heap, id, v) == [heap EXCEPT ![id] = <<v>>]

\* Vec::push under the lock: self.x_params.lock().unwrap().push(v)
Push(heap, id, v) == [heap EXCEPT ![id] = Append(@, v)]

\* Faulty variant of ToVec: the copy stops one element short.
ToVec_OneShort(slice) == [n \in 1..(Len(slice) - 1) |-> slice[n]]

\* [T]::to_vec: a new Vec holding a copy of every element of the slice.
ToVec(slice) == [n \in 1..Len(slice) |-> slice[n]]

\* ------------------------------------------------------- UdpSocketMock
UdpSocketMock_new(owner) ==
    [recv_from_params |-> <<owner, "recv_from">>,
     recv_from_results |-> << >>,
     send_to_params |-> <<owner, "send_to">>,
     send_to_results |-> << >>,
     set_read_timeout_params |-> <<owner, "set_read_timeout">>,
     set_read_timeout_results |-> << >>]

recv_from_params(self, params) == [self EXCEPT !.recv_from_params = params]

recv_from_result(self, result, bytes) ==
    [self EXCEPT !.recv_from_results = Append(@, [result |-> result, bytes |-> bytes])]

send_to_params(self, params) == [self EXCEPT !.send_to_params = params]

send_to_result(self, result) == [self EXCEPT !.send_to_results = Append(@, result)]

\* Faulty variant of set_read_timeout_params: the sink is set on a new double,
\* so that what was queued before is lost.
set_read_timeout_params_OnNew(self, params) ==
    [recv_from_params |-> self.recv_from_params,
     recv_from_results |-> << >>,
     send_to_params |-> self.send_to_params,
     send_to_results |-> << >>,
     set_read_timeout_params |-> params,
     set_read_timeout_results |-> << >>]

set_read_timeout_params(self, params) == [self EXCEPT !.set_read_timeout_params = params]

set_read_timeout_result(self, result) ==
    [self EXCEPT !.set_read_timeout_results = Append(@, result)]

\* Faulty variant of CopyLoop: the buffer is cleared past the copied bytes.
CopyLoop_ClearRest(b, bytes, n) ==
    [buf |-> [i \in 1..Len(b) |-> IF i <= Len(bytes) THEN bytes[i] ELSE 0],
     panicked |-> Len(bytes) > Len(b)]

\* for n in 0..bytes.len() { buf[n] = bytes[n]; }  (n counts from 1 here).
\* Indexing buf past its end panics; the bytes written before stay written.
RECURSIVE CopyLoop(_, _, _)
CopyLoop(b, bytes, n) ==
    IF n > Len(bytes) THEN [buf |-> b, panicked |-> FALSE]
    ELSE IF n > Len(b) THEN [buf |-> b, panicked |-> TRUE]
    ELSE CopyLoop([b EXCEPT ![n] = bytes[n]], bytes, n + 1)

UdpSocketMock_recv_from(self, heap, b) ==
    LET heap1 == Push(heap, self.recv_from_params, Unit) IN
    IF Len(self.recv_from_results) = 0
    THEN [self |-> self, heap |-> heap1, buf |-> b, out |-> Panic("removal index")]
    ELSE LET e == Head(self.recv_from_results)
             self1 == [self EXCEPT !.recv_from_results = Tail(@)]
             c == CopyLoop(b, e.bytes, 1)
         IN [self |-> self1, heap |-> heap1, buf |-> c.buf,
             out |-> IF c.panicked THEN Panic("index out of bounds") ELSE Return(e.result)]

\* Faulty variant of UdpSocketMock_send_to: the result is taken before the
\* arguments are recorded, so that an aborted call leaves no entry.
UdpSocketMock_send_to_RemoveFirst(self, heap, b, addr) ==
    IF Len(self.send_to_results) = 0
    THEN [self |-> self, heap |-> heap, out |-> Panic("removal index")]
    ELSE [self |-> [self EXCEPT !.send_to_results = Tail(@)],
          heap |-> Push(heap, self.send_to_params, [bytes |-> ToVec(b), addr |-> addr]),
          out |-> Return(Head(self.send_to_results))]

UdpSocketMock_send_to(self, heap, b, addr) ==
    LET heap1 == Push(heap, self.send_to_params, [bytes |-> ToVec(b), addr |-> addr]) IN
    IF Len(self.send_to_results) = 0
    THEN [self |-> self, heap |-> heap1, out |-> Panic("removal index")]
    ELSE [self |-> [self EXCEPT !.send_to_results = Tail(@)], heap |-> heap1,
          out |-> Return(Head(self.send_to_results))]

\* Faulty variant of UdpSocketMock_set_read_timeout: the result is taken and
\* an entry of the recv_from queue goes with it.
UdpSocketMock_set_read_timeout_WrongQueue(self, heap, dur) ==
    LET heap1 == Push(heap, self.set_read_timeout_params, dur) IN
    IF Len(self.set_read_timeout_results) = 0
    THEN [self |-> self, heap |-> heap1, out |-> Panic("removal index")]
    ELSE [self |-> [self EXCEPT !.set_read_timeout_results = Tail(@),
                                !.recv_from_results = IF @ = << >> THEN @ ELSE Tail(@)],
          heap |-> heap1, out |-> Return(Head(self.set_read_timeout_results))]

UdpSocketMock_set_read_timeout(self, heap, dur) ==
    LET heap1 == Push(heap, self.set_read_timeout_params, dur) IN
    IF Len(self.set_read_timeout_results) = 0
    THEN [self |-> self, heap |-> heap1, out |-> Panic("removal index")]
    ELSE [self |-> [self EXCEPT !.set_read_timeout_results = Tail(@)], heap |-> heap1,
          out |-> Return(Head(self.set_read_timeout_results))]

\* The sinks a double refers to, and the sinks the test holds an Arc of.
SinksHeldBy(self) ==
    {self.recv_from_params, self.send_to_params, self.set_read_timeout_params}
TestSinks == {id \in SinkIds : id[1] = "test"}

\* A UdpSocketMock that has been dropped.
Dropped == [dropped |-> TRUE]

\* Dropping a UdpSocketMock drops its three Arcs. A Vec the test holds an Arc
\* of lives on as it is; a Vec whose last Arc this was is freed, which the
\* heap shows as no entries.
UdpSocketMock_drop(self, heap) ==
    [id \in DOMAIN heap |->
        IF id \in SinksHeldBy(self) /\ id \notin TestSinks THEN << >> ELSE heap[id]]


\* ------------------------------------------------ UdpSocketFactoryMock
UdpSocketFactoryMock_new ==
    [make_params |-> <<"factory", "make">>, make_results |-> << >>]

make_params(self, params) == [self EXCEPT !.make_params = params]

make_result(self, result) == [self EXCEPT !.make_results = Append(@, result)]

\* Faulty variant of UdpSocketFactoryMock_make: the address is not recorded.
UdpSocketFactoryMock_make_NoPush(self, heap, addr) ==
    IF Len(self.make_results) = 0
    THEN [self |-> self, heap |-> heap, out |-> Panic("removal index")]
    ELSE LET r == Head(self.make_results)
             self1 == [self EXCEPT !.make_results = Tail(@)]
         IN [self |-> self1, heap |-> heap,
             out |-> IF r.ok THEN Return(Ok(r.val)) ELSE Return(Err(r.err))]

\* Faulty variant of UdpSocketFactoryMock_make: unwrap() in place of ?, so that a
\* scripted Err panics.
UdpSocketFactoryMock_make_Unwrap(self, heap, addr) ==
    LET heap1 == Push(heap, self.make_params, addr) IN
    IF Len(self.make_results) = 0
    THEN [self |-> self, heap |-> heap1, out |-> Panic("removal index")]
    ELSE LET r == Head(self.make_results)
             self1 == [self EXCEPT !.make_results = Tail(@)]
         IN [self |-> self1, heap |-> heap1,
             out |-> IF r.ok THEN Return(Ok(r.val)) ELSE Panic("unwrap on Err")]

\* Ok(Box::new(self.make_results.borrow_mut().remove(0)?)): the ? returns an
\* Err as it is, an Ok(m) is boxed and returned.
UdpSocketFactoryMock_make(self, heap, addr) ==
    LET heap1 == Push(heap, self.make_params, addr) IN
    IF Len(self.make_results) = 0
    THEN [self |-> self, heap |-> heap1, out |-> Panic("removal index")]
    ELSE LET r == Head(self.make_results)
             self1 == [self EXCEPT !.make_results = Tail(@)]
         IN [self |-> self1, heap |-> heap1,
             out |-> IF r.ok THEN Return(Ok(r.val)) ELSE Return(Err(r.err))]

\* ------------------------------------------------- FreePortFactoryMock
FreePortFactoryMock_new == [make_results |-> << >>]

port_make_result(self, result) == [self EXCEPT !.make_results = Append(@, result)]

\* Faulty variant of FreePortFactoryMock_make: an empty queue yields a default port.
FreePortFactoryMock_make_OrDefault(self) ==
    IF Len(self.make_results) = 0
    THEN [self |-> self, out |-> Return(0)]
    ELSE [self |-> [self EXCEPT !.make_results = Tail(@)],
          out |-> Return(Head(self.make_results))]

FreePortFactoryMock_make(self) ==
    IF Len(self.make_results) = 0
    THEN [self |-> self, out |-> Panic("removal index")]
    ELSE [self |-> [self EXCEPT !.make_results = Tail(@)],
          out |-> Return(Head(self.make_results))]

\* ------------------------------------------------ std::net::UdpSocket
\* The delegate of UdpSocketReal is the operating system's socket. What it
\* answers is not decided by this code: each operation below takes the answer
\* of the operating system as `answer` and adds the call to the log of calls
\* the handle has received.
UdpSocket_recv_from(os, handle, b, answer) ==
    [os |-> Append(os, [handle |-> handle, op |-> "recv_from", args |-> b,
                        result |-> answer.result, buf |-> answer.buf]),
     result |-> answer.result, buf |-> answer.buf]

UdpSocket_send_to(os, handle, b, addr, answer) ==
    [os |-> Append(os, [handle |-> handle, op |-> "send_to",
                        args |-> [bytes |-> b, addr |-> addr], result |-> answer]),
     result |-> answer]

UdpSocket_set_read_timeout(os, handle, dur, answer) ==
    [os |-> Append(os, [handle |-> handle, op |-> "set_read_timeout", args |-> dur,
                        result |-> answer]),
     result |-> answer]

\* The answers of the operating system. A datagram d from sender a is written
\* over the front of the buffer, cut to the length of the buffer; a failed
\* receive leaves the buffer alone.
Min(a, b) == IF a < b THEN a ELSE b

Datagram(d, a, b) ==
    [result |-> Ok(<<Min(Len(d), Len(b)), a>>),
     buf |-> [i \in 1..Len(b) |-> IF i <= Len(d) THEN d[i] ELSE b[i]]]

RecvAnswers(b) ==
    {Datagram(<<1>>, "192.168.0.1:5351", b), Datagram(<<1, 1>>, "192.168.0.1:5351", b),
     [result |-> Err("WouldBlock"), buf |-> b]}

SendAnswers(b) == {Ok(n) : n \in 0..Len(b)} \cup {Err("ConnectionRefused")}

TimeoutAnswers == {Ok(Unit), Err("InvalidInput")}

\* ------------------------------------------------------- UdpSocketReal
UdpSocketReal_new(delegate) == [delegate |-> delegate]

\* Faulty variant of UdpSocketReal_recv_from: a failed receive is tried again.
UdpSocketReal_recv_from_Retry(self, os, b, answer) ==
    LET d == UdpSocket_recv_from(os, self.delegate, b, answer)
        d2 == UdpSocket_recv_from(d.os, self.delegate, b, answer)
    IN IF d.result.ok THEN [os |-> d.os, buf |-> d.buf, out |-> Return(d.result)]
       ELSE [os |-> d2.os, buf |-> d2.buf, out |-> Return(d2.result)]

UdpSocketReal_recv_from(self, os, b, answer) ==
    LET d == UdpSocket_recv_from(os, self.delegate, b, answer)
    IN [os |-> d.os, buf |-> d.buf, out |-> Return(d.result)]

\* Faulty variant of UdpSocketReal_send_to: a short send is made an error.
UdpSocketReal_send_to_AllOrError(self, os, b, addr, answer) ==
    LET d == UdpSocket_send_to(os, self.delegate, b, addr, answer)
    IN [os |-> d.os,
        out |-> IF d.result.ok /\ d.result.val < Len(b)
                THEN Return(Err("WriteZero")) ELSE Return(d.result)]

UdpSocketReal_send_to(self, os, b, addr, answer) ==
    LET d == UdpSocket_send_to(os, self.delegate, b, addr, answer)
    IN [os |-> d.os, out |-> Return(d.result)]

UdpSocketReal_set_read_timeout(self, os, dur, answer) ==
    LET d == UdpSocket_set_read_timeout(os, self.delegate, dur, answer)
    IN [os |-> d.os, out |-> Return(d.result)]

\* ----------------------------------------- the operating system's binds
\* masq_lib::utils::localhost()
localhost == "127.0.0.1"

\* SocketAddr::new(ip, port)
SocketAddr_new(ip, port) == <<ip, port>>

\* The ports the operating system hands out to a bind of port 0.
EphemeralPorts == {5351, 1234, 49152}

\* The addresses of this host, and an address of another host.
HostAddrs == {SocketAddr_new(localhost, p) : p \in EphemeralPorts}
BindAddrs == HostAddrs \cup {SocketAddr_new("192.168.0.1", 5351)}

\* UdpSocket::bind(addr). `table` is the operating system's table of the
\* addresses that live sockets are bound to. An address in the table is
\* refused as in use, an address of another host as not available; any other
\* address enters the table and the new socket is returned.
UdpSocket_bind(table, addr) ==
    IF addr \in table THEN [table |-> table, result |-> Err("AddrInUse")]
    ELSE IF addr \notin HostAddrs THEN [table |-> table, result |-> Err("AddrNotAvailable")]
    ELSE [table |-> table \cup {addr}, result |-> Ok([local_addr |-> addr])]

\* Dropping a UdpSocket closes it: its address leaves the table.
UdpSocket_drop(table, sock) == table \ {sock.local_addr}

\* ------------------------------------------------ UdpSocketFactoryReal
\* The struct has no field: an instance is told from another by its name only.
UdpSocketFactoryReal_new(name) == [name |-> name]

\* Faulty variant of UdpSocketFactoryReal_make: a refused bind is tried once more.
UdpSocketFactoryReal_make_Retry(self, table, addr) ==
    LET b == UdpSocket_bind(table, addr)
        b2 == UdpSocket_bind(b.table, addr)
    IN IF b.result.ok
       THEN [table |-> b.table, binds |-> <<addr>>,
             out |-> Return(Ok(UdpSocketReal_new(b.result.val)))]
       ELSE [table |-> b2.table, binds |-> <<addr, addr>>,
             out |-> IF b2.result.ok THEN Return(Ok(UdpSocketReal_new(b2.result.val)))
                     ELSE Return(Err(b2.result.err))]

\* Ok(Box::new(UdpSocketReal::new(UdpSocket::bind(addr)?))): one bind; the ?
\* returns its Err as it is. `binds` lists the binds the call has made.
UdpSocketFactoryReal_make(self, table, addr) ==
    LET b == UdpSocket_bind(table, addr)
    IN [table |-> b.table, binds |-> <<addr>>,
        out |-> IF b.result.ok THEN Return(Ok(UdpSocketReal_new(b.result.val)))
                ELSE Return(Err(b.result.err))]

\* Dropping the Box<dyn UdpSocketWrapper> drops the UdpSocketReal and with it
\* the delegate it owns.
UdpSocketReal_drop(table, self) == UdpSocket_drop(table, self.delegate)

\* ------------------------------------------------- FreePortFactoryReal
\* The ports no live socket of this host is bound to.
UnusedPorts(table) == {p \in EphemeralPorts : SocketAddr_new(localhost, p) \notin table}

\* masq_lib::utils::find_free_port(): the probe. A socket is bound to port 0,
\* the operating system gives it an unused port (`choice`), the port is read
\* back and the socket is released before the port is returned.
find_free_port(table, choice) ==
    LET b == UdpSocket_bind(table, SocketAddr_new(localhost, choice))
    IN IF b.result.ok
       THEN [table |-> UdpSocket_drop(b.table, b.result.val), out |-> Return(choice)]
       ELSE [table |-> b.table, out |-> Panic("no free port")]

FreePortFactoryReal_new == [name |-> "FreePortFactoryReal"]

\* Faulty variant of FreePortFactoryReal_make: a fixed port, without a probe.
FreePortFactoryReal_make_Fixed(self, table, choice) ==
    [table |-> table, out |-> Return(5351)]

FreePortFactoryReal_make(self, table, choice) == find_free_port(table, choice)

\* for attempt in 0..10
Attempts == 10

\* ------------------------------------------------------------- inputs
\* The buffer the caller of the scripted socket starts with.
CallerBuf == <<0>>

\* A datagram of n bytes.
Payload(n) == [i \in 1..n |-> i % 2]

\* What a test queues on recv_from: a datagram that fits the caller's buffer,
\* a failure, and a datagram one byte longer than the caller's buffer.
RecvFromScripts ==
    {[result |-> Ok(<<Len(CallerBuf), "192.168.0.1:5351">>), bytes |-> Payload(Len(CallerBuf))],
     [result |-> Err("TimedOut"), bytes |-> Payload(0)],
     [result |-> Ok(<<Len(CallerBuf) + 1, "192.168.0.1:5351">>),
      bytes |-> Payload(Len(CallerBuf) + 1)]}

\* What a test queues on send_to: everything sent, nothing sent, a failure.
SendToScripts == {Ok(Len(CallerBuf)), Ok(0), Err("ConnectionRefused")}

SetReadTimeoutScripts == {Ok(Unit), Err("InvalidInput")}

\* Socket mocks a test hands to the factory mock.
ScriptedSockets ==
    {UdpSocketMock_new("m1"),
     send_to_result(send_to_params(UdpSocketMock_new("m2"), <<"test", "send_to">>), Ok(1))}

FactoryMakeScripts == {Err("AddrInUse")} \cup {Ok(m) : m \in ScriptedSockets}

Ports == {5351, 1234}

Ops == SocketOps \cup {"make", "port_make"}

\* -------------------------------------------------------------- state
VARIABLES
    socket,       \* the UdpSocketMock under test
    factory,      \* the UdpSocketFactoryMock under test
    portFactory,  \* the FreePortFactoryMock under test
    sinks,        \* the heap of parameter sinks
    buf,          \* the caller's buffer
    subject,      \* the objects the test exercises
    panicked,     \* a panic has unwound the test thread, dropping the doubles
    queued,       \* history: per operation, every result queued so far
    calls,        \* history: per operation, every invocation so far
    real,         \* the UdpSocketReal under test
    osLog,        \* the calls the operating system's sockets have received
    realCalls,    \* history: every call made on the UdpSocketReal
    wsock,        \* per worker thread, the UdpSocketMock it owns
    pc,           \* per thread, where it stands
    mutex,        \* the Mutex of the shared sink: its holder, or "free"
    local,        \* per worker thread, the Vec as its push has read it
    reads,        \* what the test thread has read from the shared sink
    sent,         \* history: per worker thread, the arguments of its send_to calls
    bound,        \* the operating system's table of bound addresses
    live,         \* the sockets of the real factory that the test holds
    makes,        \* history: every make call on a UdpSocketFactoryReal
    attempt,      \* free_port_factory_works: the rounds completed
    step,         \* free_port_factory_works: the statement the test is at
    port,         \* free_port_factory_works: the port of this round
    bindResult,   \* free_port_factory_works: the bind result of this round
    plan,         \* the builder steps a test applies to two doubles
    twin          \* the two doubles built from plan, each with a heap of its own

vars == <<socket, factory, portFactory, sinks, buf, subject, panicked, queued, calls,
          real, osLog, realCalls, wsock, pc, mutex, local, reads, sent,
          bound, live, makes, attempt, step, port, bindResult, plan, twin>>

netVars == <<bound, live, makes, attempt, step, port, bindResult>>

buildVars == <<plan, twin>>

concVars == <<wsock, pc, mutex, local, reads, sent>>

mockVars == <<socket, factory, portFactory, sinks, panicked, queued, calls>>
mockOther == <<socket, factory, portFactory, panicked, queued, calls>>
realVars == <<real, osLog, realCalls>>

\* The objects a test of Spec exercises, one per run.
Subjects == {"UdpSocketMock", "UdpSocketFactoryMock", "FreePortFactoryMock", "UdpSocketReal"}

\* ------------------------------------------------------------ threads
\* Two socket doubles, each owned by a thread of its own, record their send_to
\* calls in one sink of the test; the test thread reads that sink meanwhile.
Workers == {"w1", "w2"}
Threads == Workers \cup {"reader"}
SharedSink == <<"test", "send_to">>

\* What worker w sends: its bytes tell its entries from the other worker's.
WorkerBuf(w) == IF w = "w1" THEN <<0>> ELSE <<1>>

\* Each worker's double is scripted with one send_to result, so that its
\* second send_to finds the queue empty.
WorkerSocket(w) ==
    send_to_result(send_to_params(UdpSocketMock_new(w), SharedSink), Ok(1))

\* Faulty variant of CanLock: lock() does not wait for the holder.
CanLock_NoExclusion(m) == TRUE

\* Mutex::lock() returns once no thread holds the mutex.
CanLock(m) == m = "free"

\* Two doubles that a test builds from one chain of builder steps, each in a
\* run of its own: a double, the sinks of its run, its caller's buffer, the
\* steps of the chain applied to it, whether a step was applied ahead of an
\* earlier one, and what its invocations have returned.
Twins == {"a", "b"}
NewTwin ==
    [mock |-> UdpSocketMock_new("sock"), heap |-> [id \in SinkIds |-> << >>],
     buf |-> CallerBuf, done |-> {}, swapped |-> FALSE, outs |-> << >>]

\* The doubles as new() makes them, and a UdpSocketReal around a bound socket.
Fresh ==
    /\ wsock = [w \in Workers |-> WorkerSocket(w)]
    /\ pc = [t \in Threads |-> "idle"]
    /\ mutex = "free"
    /\ local = [w \in Workers |-> << >>]
    /\ reads = << >>
    /\ sent = [w \in Workers |-> << >>]
    /\ socket = UdpSocketMock_new("sock")
    /\ factory = UdpSocketFactoryMock_new
    /\ portFactory = FreePortFactoryMock_new
    /\ sinks = [id \in SinkIds |-> << >>]
    /\ panicked = FALSE
    /\ queued = [op \in Ops |-> << >>]
    /\ calls = [op \in Ops |-> << >>]
    /\ real = UdpSocketReal_new("socket1")
    /\ osLog = << >>
    /\ realCalls = << >>
    /\ live = {}
    /\ makes = << >>
    /\ attempt = 0
    /\ step = "probe"
    /\ port = 0
    /\ bindResult = Err("NotBound")
    /\ plan = << >>
    /\ twin = [t \in Twins |-> NewTwin]

Init ==
    /\ Fresh
    /\ bound = {}
    /\ buf = CallerBuf
    /\ subject \in {{d} : d \in Subjects}

NumQueued == Len(queued["recv_from"]) + Len(queued["send_to"])
             + Len(queued["set_read_timeout"]) + Len(queued["make"])
             + Len(queued["port_make"])

\* The test thread still runs and exercises double d.
Exercises(d) == ~panicked /\ d \in subject

CanQueue(d) == Exercises(d) /\ NumQueued < MaxResults

Queue(op, r) == queued' = [queued EXCEPT ![op] = Append(@, r)]

Called(op, c) ==
    /\ calls' = [calls EXCEPT ![op] = Append(@, c)]
    /\ panicked' = (c.out.kind = "panic")

\* ------------------------------------------------------ builder steps
RecvFromParams ==
    /\ Exercises("UdpSocketMock")
    /\ socket' = recv_from_params(socket, <<"test", "recv_from">>)
    /\ UNCHANGED <<factory, portFactory, sinks, buf, subject, panicked, queued, calls, realVars, concVars, netVars, buildVars>>

RecvFromResult ==
    /\ CanQueue("UdpSocketMock")
    /\ \E s \in RecvFromScripts :
        /\ socket' = recv_from_result(socket, s.result, s.bytes)
        /\ Queue("recv_from", s)
    /\ UNCHANGED <<factory, portFactory, sinks, buf, subject, panicked, calls, realVars, concVars, netVars, buildVars>>

SendToParams ==
    /\ Exercises("UdpSocketMock")
    /\ socket' = send_to_params(socket, <<"test", "send_to">>)
    /\ UNCHANGED <<factory, portFactory, sinks, buf, subject, panicked, queued, calls, realVars, concVars, netVars, buildVars>>

SendToResult ==
    /\ CanQueue("UdpSocketMock")
    /\ \E r \in SendToScripts :
        /\ socket' = send_to_result(socket, r)
        /\ Queue("send_to", r)
    /\ UNCHANGED <<factory, portFactory, sinks, buf, subject, panicked, calls, realVars, concVars, netVars, buildVars>>

SetReadTimeoutParams ==
    /\ Exercises("UdpSocketMock")
    /\ socket' = set_read_timeout_params(socket, <<"test", "set_read_timeout">>)
    /\ UNCHANGED <<factory, portFactory, sinks, buf, subject, panicked, queued, calls, realVars, concVars, netVars, buildVars>>

SetReadTimeoutResult ==
    /\ CanQueue("UdpSocketMock")
    /\ \E r \in SetReadTimeoutScripts :
        /\ socket' = set_read_timeout_result(socket, r)
        /\ Queue("set_read_timeout", r)
    /\ UNCHANGED <<factory, portFactory, sinks, buf, subject, panicked, calls, realVars, concVars, netVars, buildVars>>

FactoryMakeParams ==
    /\ Exercises("UdpSocketFactoryMock")
    /\ factory' = make_params(factory, <<"test", "make">>)
    /\ UNCHANGED <<socket, portFactory, sinks, buf, subject, panicked, queued, calls, realVars, concVars, netVars, buildVars>>

FactoryMakeResult ==
    /\ CanQueue("UdpSocketFactoryMock")
    /\ \E r \in FactoryMakeScripts :
        /\ factory' = make_result(factory, r)
        /\ Queue("make", r)
    /\ UNCHANGED <<socket, portFactory, sinks, buf, subject, panicked, calls, realVars, concVars, netVars, buildVars>>

PortMakeResult ==
    /\ CanQueue("FreePortFactoryMock")
    /\ \E p \in Ports :
        /\ portFactory' = port_make_result(portFactory, p)
        /\ Queue("port_make", p)
    /\ UNCHANGED <<socket, factory, sinks, buf, subject, panicked, calls, realVars, concVars, netVars, buildVars>>

\* -------------------------------------------------------- invocations
RecvFrom ==
    /\ Exercises("UdpSocketMock")
    /\ LET r == UdpSocketMock_recv_from(socket, sinks, buf) IN
        /\ socket' = r.self
        /\ sinks' = r.heap
        /\ buf' = r.buf
        /\ Called("recv_from", [args |-> Unit, sink |-> socket.recv_from_params,
                                out |-> r.out])
    /\ UNCHANGED <<factory, portFactory, subject, queued, realVars, concVars, netVars, buildVars>>

SendTo ==
    /\ Exercises("UdpSocketMock")
    /\ \E addr \in Destinations :
        LET r == UdpSocketMock_send_to(socket, sinks, buf, addr) IN
        /\ socket' = r.self
        /\ sinks' = r.heap
        /\ Called("send_to", [args |-> [bytes |-> buf, addr |-> addr],
                              sink |-> socket.send_to_params, out |-> r.out])
    /\ UNCHANGED <<factory, portFactory, buf, subject, queued, realVars, concVars, netVars, buildVars>>

SetReadTimeout ==
    /\ Exercises("UdpSocketMock")
    /\ \E dur \in Durations :
        LET r == UdpSocketMock_set_read_timeout(socket, sinks, dur) IN
        /\ socket' = r.self
        /\ sinks' = r.heap
        /\ Called("set_read_timeout", [args |-> dur,
                                       sink |-> socket.set_read_timeout_params, out |-> r.out])
    /\ UNCHANGED <<factory, portFactory, buf, subject, queued, realVars, concVars, netVars, buildVars>>

FactoryMake ==
    /\ Exercises("UdpSocketFactoryMock")
    /\ \E addr \in SocketAddrs :
        LET r == UdpSocketFactoryMock_make(factory, sinks, addr) IN
        /\ factory' = r.self
        /\ sinks' = r.heap
        /\ Called("make", [args |-> addr, sink |-> factory.make_params, out |-> r.out])
    /\ UNCHANGED <<socket, portFactory, buf, subject, queued, realVars, concVars, netVars, buildVars>>

PortMake ==
    /\ Exercises("FreePortFactoryMock")
    /\ LET r == FreePortFactoryMock_make(portFactory) IN
        /\ portFactory' = r.self
        /\ Called("port_make", [args |-> Unit, out |-> r.out])
    /\ UNCHANGED <<socket, factory, sinks, buf, subject, queued, realVars, concVars, netVars, buildVars>>

\* The caller reuses its buffer after a send_to has returned: it overwrites
\* a byte of it.
MutateBuf ==
    /\ Exercises("UdpSocketMock")
    /\ calls["send_to"] # << >>
    /\ \E i \in 1..Len(buf), v \in Byte :
        /\ buf[i] # v
        /\ buf' = [buf EXCEPT ![i] = v]
    /\ UNCHANGED <<socket, factory, portFactory, sinks, subject, panicked, queued, calls, realVars, concVars, netVars, buildVars>>

\* ------------------------------------------- calls on the UdpSocketReal
CanCallReal == Exercises("UdpSocketReal") /\ Len(realCalls) < MaxRealCalls

RealCalled(op, args, out) ==
    realCalls' = Append(realCalls, [op |-> op, args |-> args, out |-> out])

RealRecvFrom ==
    /\ CanCallReal
    /\ \E answer \in RecvAnswers(buf) :
        LET r == UdpSocketReal_recv_from(real, osLog, buf, answer) IN
        /\ osLog' = r.os
        /\ buf' = r.buf
        /\ RealCalled("recv_from", buf, r.out)
    /\ UNCHANGED <<real, subject, mockVars, concVars, netVars, buildVars>>

RealSendTo ==
    /\ CanCallReal
    /\ \E addr \in Destinations, answer \in SendAnswers(buf) :
        LET r == UdpSocketReal_send_to(real, osLog, buf, addr, answer) IN
        /\ osLog' = r.os
        /\ RealCalled("send_to", [bytes |-> buf, addr |-> addr], r.out)
    /\ UNCHANGED <<real, buf, subject, mockVars, concVars, netVars, buildVars>>

RealSetReadTimeout ==
    /\ CanCallReal
    /\ \E dur \in Durations, answer \in TimeoutAnswers :
        LET r == UdpSocketReal_set_read_timeout(real, osLog, dur, answer) IN
        /\ osLog' = r.os
        /\ RealCalled("set_read_timeout", dur, r.out)
    /\ UNCHANGED <<real, buf, subject, mockVars, concVars, netVars, buildVars>>

Next ==
    \/ RecvFromParams
    \/ RecvFromResult
    \/ SendToParams
    \/ SendToResult
    \/ SetReadTimeoutParams
    \/ SetReadTimeoutResult
    \/ FactoryMakeParams
    \/ FactoryMakeResult
    \/ PortMakeResult
    \/ RecvFrom
    \/ SendTo
    \/ SetReadTimeout
    \/ FactoryMake
    \/ PortMake
    \/ MutateBuf
    \/ RealRecvFrom
    \/ RealSendTo
    \/ RealSetReadTimeout

Spec == Init /\ [][Next]_vars

\* ------------------------------------------- doubles on several threads
\* send_to of a worker's double, statement by statement:
\*   self.send_to_params.lock().unwrap().push((buf.to_vec(), addr));
\*   self.send_to_results.borrow_mut().remove(0)
\* The guard of lock() lives to the end of the first statement. Vec::push
\* reads the Vec and then writes it with the new element at its end.
InitConc ==
    /\ Fresh
    /\ bound = {}
    /\ buf = CallerBuf
    /\ subject = {"UdpSocketMock"}

WorkerLock(w) ==
    /\ pc[w] = "idle"
    /\ CanLock(mutex)
    /\ mutex' = w
    /\ pc' = [pc EXCEPT ![w] = "push"]
    /\ sent' = [sent EXCEPT ![w] =
                    Append(@, [bytes |-> ToVec(WorkerBuf(w)), addr |-> "127.0.0.1:9999"])]
    /\ UNCHANGED <<wsock, local, reads, sinks, buf, subject, mockOther, realVars, netVars, buildVars>>

WorkerPushRead(w) ==
    /\ pc[w] = "push"
    /\ local' = [local EXCEPT ![w] = sinks[wsock[w].send_to_params]]
    /\ pc' = [pc EXCEPT ![w] = "store"]
    /\ UNCHANGED <<wsock, mutex, reads, sent, sinks, buf, subject, mockOther, realVars, netVars, buildVars>>

WorkerPushStore(w) ==
    /\ pc[w] = "store"
    /\ sinks' = [sinks EXCEPT ![wsock[w].send_to_params] =
                    Append(local[w], sent[w][Len(sent[w])])]
    /\ pc' = [pc EXCEPT ![w] = "unlock"]
    /\ UNCHANGED <<wsock, mutex, local, reads, sent, buf, subject, mockOther, realVars, netVars, buildVars>>

WorkerUnlock(w) ==
    /\ pc[w] = "unlock"
    /\ mutex' = "free"
    /\ pc' = [pc EXCEPT ![w] = "remove"]
    /\ UNCHANGED <<wsock, local, reads, sent, sinks, buf, subject, mockOther, realVars, netVars, buildVars>>

WorkerRemove(w) ==
    /\ pc[w] = "remove"
    /\ IF Len(wsock[w].send_to_results) = 0
       THEN /\ pc' = [pc EXCEPT ![w] = "panicked"]
            /\ UNCHANGED wsock
       ELSE /\ pc' = [pc EXCEPT ![w] = "idle"]
            /\ wsock' = [wsock EXCEPT ![w].send_to_results = Tail(@)]
    /\ UNCHANGED <<mutex, local, reads, sent, sinks, buf, subject, mockOther, realVars, netVars, buildVars>>

\* The test thread: params.lock().unwrap().clone()
ReaderLock ==
    /\ pc["reader"] = "idle"
    /\ Len(reads) < MaxReads
    /\ CanLock(mutex)
    /\ mutex' = "reader"
    /\ pc' = [pc EXCEPT !["reader"] = "read"]
    /\ UNCHANGED <<wsock, local, reads, sent, sinks, buf, subject, mockOther, realVars, netVars, buildVars>>

ReaderRead ==
    /\ pc["reader"] = "read"
    /\ reads' = Append(reads, sinks[SharedSink])
    /\ pc' = [pc EXCEPT !["reader"] = "unlock"]
    /\ UNCHANGED <<wsock, mutex, local, sent, sinks, buf, subject, mockOther, realVars, netVars, buildVars>>

ReaderUnlock ==
    /\ pc["reader"] = "unlock"
    /\ mutex' = "free"
    /\ pc' = [pc EXCEPT !["reader"] = "idle"]
    /\ UNCHANGED <<wsock, local, reads, sent, sinks, buf, subject, mockOther, realVars, netVars, buildVars>>

NextConc ==
    \/ \E w \in Workers : WorkerLock(w)
    \/ \E w \in Workers : WorkerPushRead(w)
    \/ \E w \in Workers : WorkerPushStore(w)
    \/ \E w \in Workers : WorkerUnlock(w)
    \/ \E w \in Workers : WorkerRemove(w)
    \/ ReaderLock
    \/ ReaderRead
    \/ ReaderUnlock

SpecConc == InitConc /\ [][NextConc]_vars

\* ------------------------------------- send_to, scripted and real alike
\* A test that sends through a UdpSocketMock and through a UdpSocketReal.
InitSend ==
    /\ Fresh
    /\ bound = {}
    /\ buf = CallerBuf
    /\ subject = {"UdpSocketMock", "UdpSocketReal"}

NextSend ==
    \/ SendToResult
    \/ SendTo
    \/ RealSendTo

SpecSend == InitSend /\ [][NextSend]_vars

\* ------------------------------------------- one scripted recv_from call
\* recv_from as a function of the scripted entry and the caller's buffer:
\* every buffer of up to MaxBuf bytes, every datagram of up to MaxBuf + 1
\* bytes, every outcome.
RECURSIVE SeqsUpTo(_, _)
SeqsUpTo(S, n) ==
    IF n = 0 THEN {<< >>}
    ELSE LET shorter == SeqsUpTo(S, n - 1)
         IN shorter \cup {Append(q, x) : q \in shorter, x \in S}

Buffers == SeqsUpTo(Byte, MaxBuf)

RecvOutcomes == {Ok(<<n, "192.168.0.1:5351">>) : n \in 0..(MaxBuf + 1)} \cup {Err("TimedOut")}

InitRecv ==
    /\ Fresh
    /\ bound = {}
    /\ buf \in Buffers
    /\ subject = {"UdpSocketMock"}

RecvFromResultAny ==
    /\ Exercises("UdpSocketMock")
    /\ queued["recv_from"] = << >>
    /\ \E result \in RecvOutcomes, bytes \in SeqsUpTo(Byte, MaxBuf + 1) :
        /\ socket' = recv_from_result(socket, result, bytes)
        /\ Queue("recv_from", [result |-> result, bytes |-> bytes])
    /\ UNCHANGED <<factory, portFactory, sinks, buf, subject, panicked, calls, realVars, concVars, netVars, buildVars>>

NextRecv ==
    \/ RecvFromResultAny
    \/ RecvFrom

SpecRecv == InitRecv /\ [][NextRecv]_vars

\* --------------------------------- the real socket factory and its binds
\* Two independent instances of UdpSocketFactoryReal.
Factories == {UdpSocketFactoryReal_new("f1"), UdpSocketFactoryReal_new("f2")}

\* A test of the real socket factory; another process may hold a socket on
\* an address of this host.
InitBind ==
    /\ Fresh
    /\ buf = CallerBuf
    /\ subject = {"UdpSocketFactoryReal"}
    /\ bound \in {{}, {SocketAddr_new(localhost, 1234)}}

RealFactoryMake ==
    /\ Exercises("UdpSocketFactoryReal")
    /\ Len(makes) < MaxMakes
    /\ \E f \in Factories, addr \in BindAddrs :
        LET r == UdpSocketFactoryReal_make(f, bound, addr) IN
        /\ bound' = r.table
        /\ live' = IF r.out.val.ok THEN live \cup {r.out.val.val} ELSE live
        /\ makes' = Append(makes, [factory |-> f, addr |-> addr, held |-> live,
                                   table |-> bound, binds |-> r.binds, out |-> r.out])
    /\ UNCHANGED <<attempt, step, port, bindResult, buf, subject, mockVars, realVars, concVars, buildVars>>

\* The test lets go of a socket a factory has returned.
DropSocket ==
    /\ Exercises("UdpSocketFactoryReal")
    /\ \E s \in live :
        /\ live' = live \ {s}
        /\ bound' = UdpSocketReal_drop(bound, s)
    /\ UNCHANGED <<makes, attempt, step, port, bindResult, buf, subject, mockVars, realVars, concVars, buildVars>>

NextBind ==
    \/ RealFactoryMake
    \/ DropSocket

SpecBind == InitBind /\ [][NextBind]_vars

\* ------------------------------------------------ free_port_factory_works
\* The test runs alone: the sockets of other processes are those bound
\* before it starts, and at least one port of the host is unused.
InitPort ==
    /\ Fresh
    /\ buf = CallerBuf
    /\ subject = {"FreePortFactoryReal"}
    /\ bound \in (SUBSET HostAddrs) \ {HostAddrs}

\* let port = subject.make();
TestMake ==
    /\ Exercises("FreePortFactoryReal")
    /\ step = "probe"
    /\ attempt < Attempts
    /\ \E choice \in UnusedPorts(bound) :
        LET r == FreePortFactoryReal_make(FreePortFactoryReal_new, bound, choice) IN
        /\ bound' = r.table
        /\ IF r.out.kind = "return"
           THEN port' = r.out.val /\ step' = "bind"
           ELSE port' = port /\ step' = "panicked"
    /\ UNCHANGED <<live, makes, attempt, bindResult, buf, subject, mockVars, realVars, concVars, buildVars>>

\* let result = UdpSocket::bind(SocketAddr::new(localhost(), port));
\* assert_eq!(result.is_ok(), true, ...)
TestBind ==
    /\ step = "bind"
    /\ LET b == UdpSocket_bind(bound, SocketAddr_new(localhost, port)) IN
        /\ bound' = b.table
        /\ bindResult' = b.result
        /\ step' = IF b.result.ok THEN "drop" ELSE "failed"
    /\ UNCHANGED <<live, makes, attempt, port, buf, subject, mockVars, realVars, concVars, buildVars>>

\* The end of the block: result goes out of scope and its socket is closed.
TestDrop ==
    /\ step = "drop"
    /\ bound' = UdpSocket_drop(bound, bindResult.val)
    /\ attempt' = attempt + 1
    /\ step' = "probe"
    /\ UNCHANGED <<live, makes, port, bindResult, buf, subject, mockVars, realVars, concVars, buildVars>>

NextPort ==
    \/ TestMake
    \/ TestBind
    \/ TestDrop

SpecPort == InitPort /\ [][NextPort]_vars

\* ------------------------------------ one socket double, used and dropped
\* A test that builds a UdpSocketMock, calls it and lets it go.
InitSock ==
    /\ Fresh
    /\ bound = {}
    /\ buf = CallerBuf
    /\ subject = {"UdpSocketMock"}

\* The double goes out of scope, or is passed to drop().
Discard ==
    /\ Exercises("UdpSocketMock")
    /\ sinks' = UdpSocketMock_drop(socket, sinks)
    /\ socket' = Dropped
    /\ subject' = subject \ {"UdpSocketMock"}
    /\ UNCHANGED <<factory, portFactory, buf, panicked, queued, calls, realVars, concVars, netVars, buildVars>>

NextSock ==
    \/ RecvFromParams
    \/ RecvFromResult
    \/ SendToParams
    \/ SendToResult
    \/ SetReadTimeoutParams
    \/ SetReadTimeoutResult
    \/ RecvFrom
    \/ SendTo
    \/ SetReadTimeout
    \/ Discard

SpecSock == InitSock /\ [][NextSock]_vars

\* ------------------------------------------- two doubles from one chain
\* The builder steps of a chain: queue a result on an operation, or attach
\* the test's sink of an operation.
BuilderSteps(op, kind) ==
    IF kind = "params" THEN {[op |-> op, kind |-> kind, val |-> <<"test", op>>]}
    ELSE {[op |-> op, kind |-> kind, val |-> r] :
            r \in CASE op = "recv_from" ->
                        {[result |-> Ok(<<2, "192.168.0.1:5351">>), bytes |-> <<1>>],
                         [result |-> Err("TimedOut"), bytes |-> << >>]}
                   [] op = "send_to" -> {Ok(1), Err("ConnectionRefused")}
                   [] op = "set_read_timeout" -> SetReadTimeoutScripts}

\* The builder method that step x names, applied to the double s.
ApplyStep(s, x) ==
    CASE x.op = "recv_from" /\ x.kind = "result" -> recv_from_result(s, x.val.result, x.val.bytes)
      [] x.op = "recv_from" /\ x.kind = "params" -> recv_from_params(s, x.val)
      [] x.op = "send_to" /\ x.kind = "result" -> send_to_result(s, x.val)
      [] x.op = "send_to" /\ x.kind = "params" -> send_to_params(s, x.val)
      [] x.op = "set_read_timeout" /\ x.kind = "result" -> set_read_timeout_result(s, x.val)
      [] x.op = "set_read_timeout" /\ x.kind = "params" -> set_read_timeout_params(s, x.val)

\* One invocation of op on the double of a twin, in the twin's own run.
Invoke(t, op, addr, dur) ==
    CASE op = "recv_from" ->
            LET r == UdpSocketMock_recv_from(t.mock, t.heap, t.buf)
            IN [t EXCEPT !.mock = r.self, !.heap = r.heap, !.buf = r.buf,
                         !.outs = Append(@, r.out)]
      [] op = "send_to" ->
            LET r == UdpSocketMock_send_to(t.mock, t.heap, t.buf, addr)
            IN [t EXCEPT !.mock = r.self, !.heap = r.heap, !.outs = Append(@, r.out)]
      [] op = "set_read_timeout" ->
            LET r == UdpSocketMock_set_read_timeout(t.mock, t.heap, dur)
            IN [t EXCEPT !.mock = r.self, !.heap = r.heap, !.outs = Append(@, r.out)]

InitBuild ==
    /\ Fresh
    /\ bound = {}
    /\ buf = CallerBuf
    /\ subject = {"UdpSocketMock"}

NotInvoked == \A t \in Twins : twin[t].outs = << >>

\* The test adds a step to the chain; double a is built in the chain's order.
ChainStep ==
    /\ Exercises("UdpSocketMock")
    /\ NotInvoked
    /\ Len(plan) < MaxSteps
    /\ \E op \in SocketOps, kind \in {"result", "params"} : \E x \in BuilderSteps(op, kind) :
        /\ plan' = Append(plan, x)
        /\ twin' = [twin EXCEPT !["a"].mock = ApplyStep(@, x),
                                !["a"].done = @ \cup {Len(plan) + 1}]
    /\ UNCHANGED <<socket, factory, portFactory, sinks, buf, subject, panicked, queued, calls, realVars, concVars, netVars>>

\* Double b is built from the same steps in another order: a step may be
\* applied ahead of earlier steps of the chain that belong to other operations.
ApplyToB ==
    /\ Exercises("UdpSocketMock")
    /\ NotInvoked
    /\ \E i \in (1..Len(plan)) \ twin["b"].done :
        /\ \A j \in 1..(i - 1) : j \notin twin["b"].done => plan[j].op # plan[i].op
        /\ twin' = [twin EXCEPT !["b"].mock = ApplyStep(@, plan[i]),
                                !["b"].done = @ \cup {i},
                                !["b"].swapped = @ \/ (\E j \in 1..(i - 1) : j \notin twin["b"].done)]
    /\ UNCHANGED <<plan, socket, factory, portFactory, sinks, buf, subject, panicked, queued, calls, realVars, concVars, netVars>>

\* Both doubles are built; the same invocation is made on each.
InvokeBoth ==
    /\ Exercises("UdpSocketMock")
    /\ \A t \in Twins : twin[t].done = 1..Len(plan)
    /\ \A t \in Twins : \A k \in 1..Len(twin[t].outs) : twin[t].outs[k].kind = "return"
    /\ \E op \in SocketOps, addr \in Destinations, dur \in Durations :
        twin' = [t \in Twins |-> Invoke(twin[t], op, addr, dur)]
    /\ UNCHANGED <<plan, socket, factory, portFactory, sinks, buf, subject, panicked, queued, calls, realVars, concVars, netVars>>

NextBuild ==
    \/ ChainStep
    \/ ApplyToB
    \/ InvokeBoth

SpecBuild == InitBuild /\ [][NextBuild]_vars

\* ------------------------------------------------------------- claims
\* What the invocation of op returns for the scripted entry s.
Scripted(op, s) == IF op = "recv_from" THEN s.result ELSE s

\* The calls of op that returned.
NumReturned(op) == Cardinality({k \in 1..Len(calls[op]) : calls[op][k].out.kind = "return"})

\* The result queue of op inside its double.
ResultQueue(op) ==
    CASE op = "recv_from" -> socket.recv_from_results
      [] op = "send_to" -> socket.send_to_results
      [] op = "set_read_timeout" -> socket.set_read_timeout_results
      [] op = "make" -> factory.make_results
      [] op = "port_make" -> portFactory.make_results

\* The entries a sink must hold: the arguments of the calls made through it.
CallsThrough(id) == SelectSeq(calls[id[2]], LAMBDA c : c.sink = id)
Recorded(id) == LET through == CallsThrough(id) IN [i \in 1..Len(through) |-> through[i].args]

\* C1: on every scripted double, the k-th invocation of an operation returns
\* exactly the k-th result queued on that operation (k <= N), whatever was
\* called on the other operations and however queueing and invoking interleave.
C1_KthCallReturnsKthResult ==
    \A op \in Ops : \A k \in 1..Len(calls[op]) :
        k <= Len(queued[op]) =>
            /\ calls[op][k].out.kind = "return"
            /\ calls[op][k].out.val = Scripted(op, queued[op][k])

\* C2: an invocation of an operation whose result queue is empty (nothing was
\* queued, or every queued result is consumed) panics: it returns no value.
C2_EmptyQueueAborts ==
    \A op \in Ops : \A k \in 1..Len(calls[op]) :
        k > Len(queued[op]) =>
            /\ calls[op][k].out = Panic("removal index")
            /\ k = Len(calls[op])
            /\ panicked

\* C2's case: N results were consumed by N calls and call N+1 panicked.
C2_Witness ==
    \E op \in Ops :
        /\ Len(queued[op]) >= 1
        /\ Len(calls[op]) = Len(queued[op]) + 1
        /\ calls[op][Len(calls[op])].out.kind = "panic"

\* C3: every sink holds one entry per invocation made through it, in the order
\* of the invocations, each equal to the arguments at call time; what the
\* caller does to its buffer afterwards does not change a recorded entry.
C3_SinksHoldCallArguments == \A id \in SinkIds : sinks[id] = Recorded(id)

\* C3's case: a send_to was recorded and the caller's buffer has changed since.
C3_Witness ==
    LET id == <<"test", "send_to">> IN
    /\ Len(sinks[id]) >= 2
    /\ sinks[id][1].bytes # sinks[id][2].bytes
    /\ sinks[id][2].bytes # buf

\* The sinks that hold the parameters of op, and the number of entries in
\* them all. No sink holds parameters of the free-port factory's make.
SinksOf(op) == {id \in SinkIds : id[2] = op}
EntriesIn(owner, op) == IF <<owner, op>> \in SinkIds THEN Len(sinks[<<owner, op>>]) ELSE 0
Captured(op) ==
    EntriesIn("test", op) + EntriesIn("sock", op) + EntriesIn("factory", op)
    + EntriesIn("m1", op) + EntriesIn("m2", op)

\* The operations whose double has a *_params field.
CapturingOps == SocketOps \cup {"make"}

\* C4 as claimed: every operation of every double, the free-port factory's
\* make included, has a sink that grows by one entry on every invocation.
C4_EveryOperationCaptures == \A op \in Ops : Captured(op) = Len(calls[op])

\* C4, amended: recv_from, send_to, set_read_timeout of the socket double and
\* make of the socket-factory double each have a sink that grows by one entry
\* on every invocation; the free-port-factory double has no sink and its make
\* records nothing.
C4_SocketAndFactoryCapture ==
    /\ \A op \in CapturingOps : Captured(op) = Len(calls[op])
    /\ {socket.recv_from_params, socket.send_to_params, socket.set_read_timeout_params,
        factory.make_params} \subseteq SinkIds
    /\ DOMAIN portFactory = {"make_results"}
    /\ calls["port_make"] # << >> => \A id \in SinkIds : sinks[id] = << >>

\* C4's case: the factory double's make was invoked twice, the second time
\* through a sink of the test.
C4_Witness ==
    /\ Len(calls["make"]) = 2
    /\ Len(sinks[<<"factory", "make">>]) = 1
    /\ Len(sinks[<<"test", "make">>]) = 1

\* C7: the k-th make of the socket-factory double returns the k-th queued
\* result as it was queued: Err(e) as Err(e) without a panic, Ok(m) as the
\* double m, queues and sinks included; the address is recorded and one
\* queued result is consumed.
C7_FactoryMakeReturnsScript ==
    /\ \A k \in 1..Len(calls["make"]) :
        k <= Len(queued["make"]) => calls["make"][k].out = Return(queued["make"][k])
    /\ \A id \in SinksOf("make") : sinks[id] = Recorded(id)
    /\ factory.make_results =
        SubSeq(queued["make"], NumReturned("make") + 1, Len(queued["make"]))

\* C7's case: one make returned a failure and another returned a scripted
\* socket that carries a queued result and a sink of the test.
C7_Witness ==
    /\ \E k \in 1..Len(calls["make"]) : calls["make"][k].out = Return(Err("AddrInUse"))
    /\ \E k \in 1..Len(calls["make"]) :
        /\ calls["make"][k].out.kind = "return"
        /\ calls["make"][k].out.val.ok
        /\ calls["make"][k].out.val.val.send_to_results = <<Ok(1)>>
        /\ calls["make"][k].out.val.val.send_to_params = <<"test", "send_to">>

\* The k-th recv_from call consumed the k-th scripted entry.
LastRecv == Len(calls'["recv_from"])
RecvCalled == LastRecv = Len(calls["recv_from"]) + 1 /\ LastRecv <= Len(queued["recv_from"])

\* C5: a recv_from whose scripted outcome is a success and whose scripted
\* bytes P fit the caller's buffer B leaves B[0..len(P)) equal to P and every
\* byte from len(P) on as it was.
C5_RecvCopiesPayloadOnly ==
    [][RecvCalled =>
        LET e == queued["recv_from"][LastRecv] IN
        (e.result.ok /\ Len(e.bytes) <= Len(buf)) =>
            /\ Len(buf') = Len(buf)
            /\ \A i \in 1..Len(buf) :
                buf'[i] = IF i <= Len(e.bytes) THEN e.bytes[i] ELSE buf[i]
            /\ calls'["recv_from"][LastRecv].out = Return(e.result)]_vars

\* C5's case: a one-byte datagram was received into a two-byte buffer whose
\* second byte is not zero.
C5_Witness ==
    /\ Len(calls["recv_from"]) = 1
    /\ calls["recv_from"][1].out.kind = "return"
    /\ calls["recv_from"][1].out.val.ok
    /\ queued["recv_from"][1].bytes = <<0>>
    /\ buf = <<0, 1>>

\* C6: a recv_from whose scripted bytes are longer than the caller's buffer
\* fills the buffer with the first len(buffer) scripted bytes and returns the
\* scripted outcome.
C6_OversizeIsTruncated ==
    \A k \in 1..Len(calls["recv_from"]) :
        (k <= Len(queued["recv_from"]) /\ Len(queued["recv_from"][k].bytes) > Len(buf)) =>
            /\ buf = SubSeq(queued["recv_from"][k].bytes, 1, Len(buf))
            /\ calls["recv_from"][k].out = Return(queued["recv_from"][k].result)

\* C9: a send that transmits fewer bytes than asked is a success carrying the
\* count: UdpSocketReal.send_to returns the Ok(n) of its delegate and
\* UdpSocketMock.send_to its scripted Ok(n), for every n, n < len(buf)
\* included, after a single call of the delegate.
C9_ShortSendIsSuccess ==
    /\ \A k \in 1..Len(calls["send_to"]) :
        (k <= Len(queued["send_to"]) /\ queued["send_to"][k].ok) =>
            calls["send_to"][k].out = Return(Ok(queued["send_to"][k].val))
    /\ Len(osLog) = Len(realCalls)
    /\ \A k \in 1..Len(realCalls) :
        (realCalls[k].op = "send_to" /\ osLog[k].result.ok) =>
            realCalls[k].out = Return(Ok(osLog[k].result.val))

\* C9's case: the scripted socket and the real socket have each sent none of
\* the bytes of a one-byte buffer and returned Ok(0).
C9_Witness ==
    /\ \E k \in 1..Len(calls["send_to"]) :
        /\ Len(calls["send_to"][k].args.bytes) = 1
        /\ calls["send_to"][k].out = Return(Ok(0))
    /\ \E k \in 1..Len(realCalls) :
        /\ Len(realCalls[k].args.bytes) = 1
        /\ osLog[k].result = Ok(0)
        /\ realCalls[k].out = Return(Ok(0))

\* C10: every call on a UdpSocketReal makes exactly one call of the same
\* operation on its delegate, with the same arguments, and returns what the
\* delegate returned, an I/O error included; it never panics.
C10_RealIsPassThrough ==
    /\ Len(osLog) = Len(realCalls)
    /\ \A k \in 1..Len(realCalls) :
        /\ osLog[k].handle = real.delegate
        /\ osLog[k].op = realCalls[k].op
        /\ osLog[k].args = realCalls[k].args
        /\ realCalls[k].out = Return(osLog[k].result)
    /\ (realCalls # << >> /\ osLog[Len(osLog)].op = "recv_from") => buf = osLog[Len(osLog)].buf
    /\ "UdpSocketReal" \in subject => ~panicked

\* C10's case: the delegate failed a receive and accepted a send, and both
\* answers came back to the caller.
C10_Witness ==
    /\ Len(realCalls) = 2
    /\ realCalls[1].op = "recv_from"
    /\ realCalls[1].out = Return(Err("WouldBlock"))
    /\ realCalls[2].op = "send_to"
    /\ realCalls[2].out = Return(Ok(1))

\* The entries of worker w in a Vec, in their order.
EntriesOf(w, vec) == SelectSeq(vec, LAMBDA e : e.bytes = WorkerBuf(w))

\* The send_to calls of worker w whose push is done.
Pushed(w) ==
    SubSeq(sent[w], 1, Len(sent[w]) - (IF pc[w] \in {"push", "store"} THEN 1 ELSE 0))

IsPrefix(p, q) == Len(p) <= Len(q) /\ SubSeq(q, 1, Len(p)) = p

\* C8: doubles on different threads append to one sink while the test thread
\* reads it: under every interleaving the sink holds one whole entry per
\* send_to whose push is done, those of one double in the order of its calls,
\* none lost and none twice, and every read is a prefix of the sink's contents
\* from then on.
C8_SharedSinkKeepsEveryEntry ==
    /\ \A w \in Workers : EntriesOf(w, sinks[SharedSink]) = Pushed(w)
    /\ Len(sinks[SharedSink]) = Len(Pushed("w1")) + Len(Pushed("w2"))
    /\ \A i \in 1..Len(reads) : IsPrefix(reads[i], sinks[SharedSink])
    /\ \A i \in 1..Len(reads) : \A j \in i..Len(reads) : IsPrefix(reads[i], reads[j])

\* C8's case: both doubles have recorded two calls each, the second of which
\* found its result queue empty, and the test thread has read the sink twice
\* while they ran, seeing it grow.
C8_Witness ==
    /\ Len(sinks[SharedSink]) = 4
    /\ \A w \in Workers : pc[w] = "panicked"
    /\ Len(reads) = 2
    /\ Len(reads[1]) = 1
    /\ Len(reads[2]) = 3
    /\ sinks[SharedSink][1].bytes # sinks[SharedSink][2].bytes

\* C11: while a socket that one UdpSocketFactoryReal has bound is alive, make
\* on the same address from any instance, the maker or another, fails with
\* AddrInUse after a single bind, yields no socket and leaves the table as it
\* was; on an address of the host that no live socket holds, the dropped
\* address of an earlier socket included, make binds once and returns the
\* socket.
C11_SecondBindIsInUse ==
    /\ \A k \in 1..Len(makes) :
        LET m == makes[k] IN
        /\ m.binds = <<m.addr>>
        /\ (\E s \in m.held : s.delegate.local_addr = m.addr) =>
                m.out = Return(Err("AddrInUse"))
        /\ (m.addr \in HostAddrs /\ m.addr \notin m.table) =>
                m.out = Return(Ok(UdpSocketReal_new([local_addr |-> m.addr])))
    /\ \A s \in live : s.delegate.local_addr \in bound

\* C11's case: f1 bound an address, f2 was refused the same address while
\* f1's socket lived, and f2 bound it once that socket was dropped.
C11_Witness ==
    /\ Len(makes) = 3
    /\ makes[1].factory.name = "f1"
    /\ makes[1].out.val.ok
    /\ makes[2].factory.name = "f2"
    /\ makes[2].addr = makes[1].addr
    /\ makes[2].out = Return(Err("AddrInUse"))
    /\ makes[3].factory.name = "f2"
    /\ makes[3].addr = makes[1].addr
    /\ makes[3].held = {}
    /\ makes[3].out.val.ok

\* C12: in every round of free_port_factory_works, whatever ports other
\* processes held before the test, the bind to (localhost, port) that follows
\* make succeeds: the assertion never fails and the port bound is the port
\* make returned.
C12_ProbedPortBinds ==
    /\ step \notin {"failed", "panicked"}
    /\ step = "drop" =>
        /\ bindResult = Ok([local_addr |-> SocketAddr_new(localhost, port)])
        /\ SocketAddr_new(localhost, port) \in bound
    /\ step = "bind" => port \in UnusedPorts(bound)

\* C12's case: ten rounds are done on a host where other processes hold ports.
C12_Witness ==
    /\ attempt = Attempts
    /\ step = "probe"
    /\ bound # {}
    /\ bindResult.ok

\* C13: a recv_from whose consumed scripted outcome is an Err leaves the
\* caller's buffer exactly as it was, whatever scripted bytes come with it.
C13_ErrLeavesBuffer ==
    [][RecvCalled =>
        LET e == queued["recv_from"][LastRecv] IN
        ~e.result.ok => buf' = buf]_vars

\* C14: a scripted recv_from returns exactly the scripted outcome, also when
\* its count differs from the length of the scripted bytes, and writes
\* len(bytes) bytes of the buffer: the scripted bytes from offset 0, every
\* byte after them as it was.
C14_OutcomeIndependentOfBytes ==
    [][RecvCalled =>
        LET e == queued["recv_from"][LastRecv] IN
        /\ calls'["recv_from"][LastRecv].out = Return(e.result)
        /\ Len(e.bytes) <= Len(buf')
        /\ \A i \in 1..Len(buf') :
            buf'[i] = IF i <= Len(e.bytes) THEN e.bytes[i] ELSE buf[i]]_vars

\* The result queue and the sink of op in the socket double s.
QueueOf(s, op) ==
    CASE op = "recv_from" -> s.recv_from_results
      [] op = "send_to" -> s.send_to_results
      [] op = "set_read_timeout" -> s.set_read_timeout_results
SinkOf(s, op) ==
    CASE op = "recv_from" -> s.recv_from_params
      [] op = "send_to" -> s.send_to_params
      [] op = "set_read_timeout" -> s.set_read_timeout_params

\* This step is an invocation of op.
Invoked(op) == Len(calls'[op]) = Len(calls[op]) + 1

\* C15: an invocation of one operation of the socket double takes the front
\* entry, and only that entry, off the result queue of that operation (it
\* aborts on an empty queue, which stays empty), appends exactly one entry,
\* the call's arguments, to the sink of that operation, and leaves the result
\* queues and the sinks of the other two operations as they were.
C15_InvocationTouchesOwnQueueAndSink ==
    [][\A op \in SocketOps : Invoked(op) =>
        /\ QueueOf(socket', op) =
            (IF QueueOf(socket, op) = << >> THEN << >> ELSE Tail(QueueOf(socket, op)))
        /\ (QueueOf(socket, op) = << >>) = (calls'[op][Len(calls'[op])].out = Panic("removal index"))
        /\ sinks'[SinkOf(socket, op)] =
            Append(sinks[SinkOf(socket, op)], calls'[op][Len(calls'[op])].args)
        /\ \A o \in SocketOps \ {op} :
            /\ QueueOf(socket', o) = QueueOf(socket, o)
            /\ calls'[o] = calls[o]
        /\ \A o \in SocketOps : SinkOf(socket', o) = SinkOf(socket, o)
        /\ \A id \in SinkIds \ {SinkOf(socket, op)} : sinks'[id] = sinks[id]]_vars

\* C15's case: between two recv_from calls that returned the first and the
\* second queued result, set_read_timeout and send_to were called.
C15_Witness ==
    /\ Len(calls["recv_from"]) = 1
    /\ calls["recv_from"][1].out.kind = "return"
    /\ Len(calls["set_read_timeout"]) = 1
    /\ calls["set_read_timeout"][1].out.kind = "return"
    /\ Len(socket.recv_from_results) = 1
    /\ Len(sinks[socket.set_read_timeout_params]) = 1
    /\ Len(sinks[socket.recv_from_params]) = 1

\* The double is gone: dropped by the test, or by the unwinding of a panic.
Gone == panicked \/ "UdpSocketMock" \notin subject

\* C16: in every step (a builder step, an invocation, an abort, the drop of
\* the double) a sink the test holds keeps every entry it had, in place, and
\* at most gains entries at its end; once the double is gone the sink still
\* holds the arguments of every call made through it.
C16_SinksOnlyGrow ==
    [][\A id \in TestSinks :
        /\ IsPrefix(sinks[id], sinks'[id])
        /\ Gone' => sinks'[id] = Recorded(id)']_vars

\* C16's case: the double was dropped after two calls through a sink of the
\* test, which still holds both entries, and one call through a sink of its
\* own, which went with it.
C16_Witness ==
    /\ "UdpSocketMock" \notin subject
    /\ ~panicked
    /\ socket = Dropped
    /\ Len(sinks[<<"test", "send_to">>]) = 2
    /\ Len(calls["send_to"]) = 2
    /\ Len(calls["recv_from"]) = 1
    /\ sinks[<<"sock", "recv_from">>] = << >>

\* C17: a call of recv_from, send_to, set_read_timeout or of the socket
\* factory's make that aborts on an empty result queue has appended its
\* arguments to the sink before it aborted: the last entry of its sink is the
\* call's arguments, and the sinks of the operation hold one entry per
\* attempted call, one more than the calls that returned.
C17_AbortedCallIsRecorded ==
    \A op \in CapturingOps : \A k \in 1..Len(calls[op]) :
        calls[op][k].out = Panic("removal index") =>
            LET id == calls[op][k].sink IN
            /\ sinks[id] # << >>
            /\ sinks[id][Len(sinks[id])] = calls[op][k].args
            /\ Captured(op) = Len(calls[op])
            /\ Captured(op) = NumReturned(op) + 1

\* C17's case: a send_to returned, the next one found the queue empty and
\* aborted, and the sink of the test holds both calls.
C17_Witness ==
    /\ Len(calls["send_to"]) = 2
    /\ calls["send_to"][1].out.kind = "return"
    /\ calls["send_to"][2].out = Panic("removal index")
    /\ Len(sinks[<<"test", "send_to">>]) = 2

\* The results that the steps `done` of the chain queue on op, in the order
\* of the chain, and the sink they leave op with.
StepsOf(op, kind, done) ==
    SelectSeq([i \in 1..Len(plan) |-> i],
              LAMBDA i : i \in done /\ plan[i].op = op /\ plan[i].kind = kind)
ResultsIn(op, done) ==
    LET idx == StepsOf(op, "result", done) IN [n \in 1..Len(idx) |-> plan[idx[n]].val]
SinkIn(op, done) ==
    IF StepsOf(op, "params", done) = << >> THEN <<"sock", op>> ELSE <<"test", op>>

\* C18: whatever the order in which the steps of a chain are applied, the
\* order of the steps of one operation being kept, each result queue holds
\* the results its operation's steps queued, one per step, in their order,
\* and each sink is the one its operation's steps attached: a queue-a-result
\* step adds one entry at the back of its own queue and a sink step changes
\* no queue. Two doubles built from the same steps in different orders are
\* the same double, and under the same invocations they return the same
\* results, record the same sink entries and write the same bytes.
C18_BuilderStepsCommute ==
    /\ \A t \in Twins : twin[t].outs = << >> =>
        \A op \in SocketOps :
            /\ QueueOf(twin[t].mock, op) = ResultsIn(op, twin[t].done)
            /\ SinkOf(twin[t].mock, op) = SinkIn(op, twin[t].done)
    /\ twin["b"].done = twin["a"].done =>
        /\ twin["b"].mock = twin["a"].mock
        /\ twin["b"].outs = twin["a"].outs
        /\ twin["b"].heap = twin["a"].heap
        /\ twin["b"].buf = twin["a"].buf

\* C18's case: double b was built with the last step of a three-step chain
\* first, and both doubles have returned a queued result through a sink of
\* the test.
C18_Witness ==
    /\ Len(plan) = 3
    /\ plan[1].kind = "result"
    /\ plan[3].kind = "params"
    /\ twin["b"].swapped
    /\ Len(twin["b"].outs) = 2
    /\ \A k \in 1..2 : twin["b"].outs[k].kind = "return"
    /\ \E op \in SocketOps : Len(twin["b"].heap[<<"test", op>>]) = 1

====
